---- MODULE Spec2Model ----
(***************************************************************************)
(* Scoring / aggregation engine and session combination of the maturity    *)
(* assessment application.                                                 *)
(*                                                                         *)
(* Scores are kept in hundredths (the computed_score column is             *)
(* Numeric(3,2)): a current_maturity of 3 is the score 300, a              *)
(* computed_score of 4.25 is 425.  Averages and coverages are exact        *)
(* rationals in lowest terms; NaN is a separate flag.                      *)
(***************************************************************************)
EXTENDS Integers, Sequences, FiniteSets, TLC

VARIABLES dimensions, themes, topics, sessions, entries, response, tx

vars == <<dimensions, themes, topics, sessions, entries, response, tx>>

(***************************************************************************)
(* Bounds of the model                                                     *)
(***************************************************************************)
MaxTopics == 3
MaxSessions == 2
MaxEntries == 3
MaxSources == 2
MaxRows == 1
MaxClients == 2

(***************************************************************************)
(* Program constants                                                       *)
(***************************************************************************)
NULL == -1
MinLevel == 1
MaxLevel == 5
MinScore == 0
Scale == 100
MaxScore == MaxLevel * Scale
MaxSourceIds == 50

(***************************************************************************)
(* Exact rationals                                                         *)
(***************************************************************************)
Abs(x) == IF x < 0 THEN -x ELSE x

RECURSIVE GCD(_, _)
GCD(a, b) == IF b = 0 THEN a ELSE GCD(b, a % b)

\* a float that is a number: num/den in lowest terms, den > 0
Rat(n, d) ==
    LET g == GCD(Abs(n), d)
    IN  [nan |-> FALSE, num |-> n \div g, den |-> d \div g]

\* float("nan")
NaN == [nan |-> TRUE, num |-> 0, den |-> 1]

Zero == Rat(0, 1)

IsNaN(x) == x.nan

RatAdd(a, b) == Rat(a.num * b.den + b.num * a.den, a.den * b.den)

RatDivInt(a, n) == Rat(a.num, a.den * n)

RECURSIVE SumSeq(_)
SumSeq(s) == IF s = <<>> THEN Zero ELSE RatAdd(Head(s), SumSeq(Tail(s)))

(***************************************************************************)
(* Catalog and entry store                                                 *)
(***************************************************************************)
\* dimensions: [id, name]; names are sort keys (ORDER BY name)
SeedDimensions ==
    { [id |-> 1, name |-> 2], [id |-> 2, name |-> 3], [id |-> 3, name |-> 1] }

\* themes: [id, dimension_id, name]; dimension 3 owns no theme
SeedThemes ==
    { [id |-> 1, dimension_id |-> 1, name |-> 3],
      [id |-> 2, dimension_id |-> 1, name |-> 1],
      [id |-> 3, dimension_id |-> 2, name |-> 2] }

\* topics: [id, theme_id, name]; theme 3 owns no topic
SeedTopics ==
    { [id |-> t, theme_id |-> IF t <= 2 THEN 1 ELSE 2, name |-> t] : t \in 1..MaxTopics }

SeedSessions == { [id |-> s, name |-> "Baseline"] : s \in 1..MaxSessions }

\* column values of an assessment_entries row, without its key
EntryValues ==
    { [current_maturity |-> 3, desired_maturity |-> 3, computed_score |-> NULL,
       current_is_na |-> FALSE, desired_is_na |-> FALSE,
       comment |-> "", progress_state |-> "in_progress"],
      [current_maturity |-> 2, desired_maturity |-> 4, computed_score |-> 425,
       current_is_na |-> FALSE, desired_is_na |-> FALSE,
       comment |-> "", progress_state |-> "complete"],
      [current_maturity |-> NULL, desired_maturity |-> NULL, computed_score |-> 0,
       current_is_na |-> FALSE, desired_is_na |-> FALSE,
       comment |-> "", progress_state |-> "complete"],
      [current_maturity |-> 4, desired_maturity |-> NULL, computed_score |-> 150,
       current_is_na |-> TRUE, desired_is_na |-> TRUE,
       comment |-> "", progress_state |-> "not_started"],
      [current_maturity |-> NULL, desired_maturity |-> NULL, computed_score |-> NULL,
       current_is_na |-> FALSE, desired_is_na |-> FALSE,
       comment |-> "", progress_state |-> "not_started"] }

EntryRow(sid, tid, v) ==
    [session_id |-> sid, topic_id |-> tid,
     current_maturity |-> v.current_maturity,
     desired_maturity |-> v.desired_maturity,
     computed_score |-> v.computed_score,
     current_is_na |-> v.current_is_na,
     desired_is_na |-> v.desired_is_na,
     comment |-> v.comment,
     progress_state |-> v.progress_state]

\* query(AssessmentEntryORM).filter_by(session_id=..., topic_id=...)
EntriesOfPair(es, session_id, topic_id) ==
    { e \in es : e.session_id = session_id /\ e.topic_id = topic_id }

\* UniqueConstraint("session_id", "topic_id")
uq_session_topic(es) ==
    \A e1 \in es : \A e2 \in es :
        (e1.session_id = e2.session_id /\ e1.topic_id = e2.topic_id) => e1 = e2

\* CheckConstraint ck_entry_scores
ck_entry_scores(e) ==
    /\ e.current_maturity = NULL \/ e.current_maturity \in MinLevel..MaxLevel
    /\ e.desired_maturity = NULL \/ e.desired_maturity \in MinLevel..MaxLevel
    /\ e.computed_score = NULL \/ e.computed_score \in MinScore..MaxScore

NoResponse ==
    [op |-> "none", session_id |-> 0, source_ids |-> <<>>, status |-> "none",
     name |-> "", error |-> "", records |-> <<>>, master_id |-> 0, processed |-> 0,
     input |-> <<>>, statistics |-> <<>>, result |-> NULL, topic_scores |-> <<>>]

\* a request handler that has not been called.  visible: the committed
\* entries of the rated (session, topic) when the function of the request ran
NoTx ==
    [phase |-> "idle", op |-> "none", input |-> <<>>, raised |-> "", master_id |-> 0,
     visible |-> {}, new_sessions |-> {}, new_entries |-> {}]

(***************************************************************************)
(* clamp_rating (domain/services.py)                                       *)
(***************************************************************************)
\* variant: max(1, min(5, level)) in place of the range test
clamp_rating_saturating(level) ==
    IF level = NULL THEN [raised |-> "", value |-> NULL]
    ELSE IF level < MinLevel THEN [raised |-> "", value |-> MinLevel]
    ELSE IF level > MaxLevel THEN [raised |-> "", value |-> MaxLevel]
    ELSE [raised |-> "", value |-> level]

\* the exception clamp_rating raises ("" for none) and the value it returns
clamp_rating(level) ==
    IF level = NULL THEN [raised |-> "", value |-> NULL]
    ELSE IF ~(MinLevel <= level /\ level <= MaxLevel)
    THEN [raised |-> "ValueError", value |-> NULL]
    ELSE [raised |-> "", value |-> level]

(***************************************************************************)
(* ScoringService                                                          *)
(***************************************************************************)
\* ORDER BY name
RECURSIVE OrderByName(_)
OrderByName(rows) ==
    IF rows = {} THEN <<>>
    ELSE LET r == CHOOSE x \in rows : \A y \in rows : x.name <= y.name
         IN  <<r>> \o OrderByName(rows \ {r})

\* variant: COALESCE(current_maturity, computed_score)
score_expr_maturity_first(e) ==
    IF e.current_maturity # NULL THEN e.current_maturity * Scale
    ELSE IF e.computed_score # NULL THEN e.computed_score
    ELSE NULL

\* func.coalesce(computed_score, current_maturity), in hundredths
score_expr(e) ==
    IF e.computed_score # NULL THEN e.computed_score
    ELSE IF e.current_maturity # NULL THEN e.current_maturity * Scale
    ELSE NULL

RECURSIVE SumScores(_)
SumScores(es) ==
    IF es = {} THEN 0
    ELSE LET e == CHOOSE x \in es : TRUE
         IN  score_expr(e) + SumScores(es \ {e})

\* the subquery counting topics per theme, COALESCEd to 0
total_topics_sq(th) == Cardinality({ t \in topics : t.theme_id = th.id })

\* variant: the join on assessment_entries without its session_id condition
JoinedEntries_any_session(es, th, session_id) ==
    { e \in es : \E t \in topics : t.id = e.topic_id /\ t.theme_id = th.id }

\* entry rows the outer joins attach to a theme for one session
JoinedEntries(es, th, session_id) ==
    { e \in es :
        /\ e.session_id = session_id
        /\ \E t \in topics : t.id = e.topic_id /\ t.theme_id = th.id }

\* variant: the CASE of rated_count without its current_is_na condition
rated_count_expr_with_na(es, th, session_id) ==
    Cardinality({ e \in JoinedEntries(es, th, session_id) : score_expr(e) # NULL })

rated_count_expr(es, th, session_id) ==
    Cardinality({ e \in JoinedEntries(es, th, session_id) :
                    (~e.current_is_na) /\ score_expr(e) # NULL })

\* variant: SUM(score) / total_topics, an unrated topic counting as 0
avg_expr_over_topics(es, th, session_id) ==
    LET scored == { e \in JoinedEntries(es, th, session_id) :
                      (~e.current_is_na) /\ score_expr(e) # NULL }
    IN  IF scored = {} THEN NaN
        ELSE Rat(SumScores(scored), total_topics_sq(th))

\* AVG skips the NULLs the CASE yields; NULL when nothing is left
avg_expr(es, th, session_id) ==
    LET scored == { e \in JoinedEntries(es, th, session_id) :
                      (~e.current_is_na) /\ score_expr(e) # NULL }
    IN  IF scored = {} THEN NaN
        ELSE Rat(SumScores(scored), Cardinality(scored))

AverageResult(id, name, average, coverage) ==
    [id |-> id, name |-> name, average |-> average, coverage |-> coverage]

\* variant: a NULL avg_score becomes 0.0
ThemeResult_avg_zero(es, th, session_id) ==
    LET total_topics == total_topics_sq(th)
        rated_count == rated_count_expr(es, th, session_id)
        coverage == IF total_topics # 0 THEN Rat(rated_count, total_topics) ELSE Zero
        avg_score == avg_expr(es, th, session_id)
    IN  AverageResult(th.id, th.name, IF IsNaN(avg_score) THEN Zero ELSE avg_score, coverage)

ThemeResult(es, th, session_id) ==
    LET total_topics == total_topics_sq(th)
        rated_count == rated_count_expr(es, th, session_id)
        coverage == IF total_topics # 0 THEN Rat(rated_count, total_topics) ELSE Zero
    IN  AverageResult(th.id, th.name, avg_expr(es, th, session_id), coverage)

\* variant: inner joins, which drop a theme without topics
compute_theme_averages_inner_join(es, session_id) ==
    LET rows == OrderByName({ th \in themes : total_topics_sq(th) # 0 })
    IN  [i \in 1..Len(rows) |-> ThemeResult(es, rows[i], session_id)]

compute_theme_averages(es, session_id) ==
    LET rows == OrderByName(themes)
    IN  [i \in 1..Len(rows) |-> ThemeResult(es, rows[i], session_id)]

\* variant: a NaN theme average counts as 0 in the dimension mean
DimensionResult_nan_as_zero(d, theme_results) ==
    LET ts == SelectSeq(theme_results,
                  LAMBDA tr : \E th \in themes : th.id = tr.id /\ th.dimension_id = d.id)
        avg == RatDivInt(SumSeq([i \in 1..Len(ts) |->
                                   IF IsNaN(ts[i].average) THEN Zero ELSE ts[i].average]),
                         Len(ts))
        coverage == RatDivInt(SumSeq([i \in 1..Len(ts) |-> ts[i].coverage]), Len(ts))
    IN  IF ts = <<>> THEN AverageResult(d.id, d.name, NaN, Zero)
        ELSE AverageResult(d.id, d.name, avg, coverage)

DimensionResult(d, theme_results) ==
    LET ts == SelectSeq(theme_results,
                  LAMBDA tr : \E th \in themes : th.id = tr.id /\ th.dimension_id = d.id)
        theme_avgs == SelectSeq(ts, LAMBDA t : ~IsNaN(t.average))
        avg == IF theme_avgs # <<>>
               THEN RatDivInt(SumSeq([i \in 1..Len(theme_avgs) |-> theme_avgs[i].average]),
                              Len(theme_avgs))
               ELSE NaN
        coverage == RatDivInt(SumSeq([i \in 1..Len(ts) |-> ts[i].coverage]), Len(ts))
    IN  IF ts = <<>> THEN AverageResult(d.id, d.name, NaN, Zero)
        ELSE AverageResult(d.id, d.name, avg, coverage)

\* variant: the theme results of session 1 whatever session is asked for
compute_dimension_averages_first_session(es, session_id) ==
    LET theme_results == compute_theme_averages(es, 1)
        dims == OrderByName(dimensions)
    IN  [i \in 1..Len(dims) |-> DimensionResult(dims[i], theme_results)]

compute_dimension_averages(es, session_id) ==
    LET theme_results == compute_theme_averages(es, session_id)
        dims == OrderByName(dimensions)
    IN  [i \in 1..Len(dims) |-> DimensionResult(dims[i], theme_results)]


(***************************************************************************)
(* compute_theme_averages / compute_dimension_averages of application/api  *)
(***************************************************************************)
\* BaseRepository.get_by_id_required: the exception it raises ("" for none)
get_by_id_required(rows, id) ==
    IF \E r \in rows : r.id = id THEN "" ELSE "ValueError"

\* an exception as it leaves the except block of an application function:
\* a ResilienceAssessmentError is re-raised, anything else is wrapped
Reraise(e, wrapper) ==
    IF e \in {"ValidationError", "TopicNotFoundError", "SessionNotFoundError",
              "BusinessLogicError:topics_required_for_combination"}
    THEN e ELSE wrapper

api_compute_theme_averages(session_id) ==
    LET e == get_by_id_required(sessions, session_id)
    IN  IF e # ""
        THEN [raised |-> Reraise(e, "ResilienceAssessmentError"), records |-> <<>>]
        ELSE [raised |-> "", records |-> compute_theme_averages(entries, session_id)]

api_compute_dimension_averages(session_id) ==
    LET e == get_by_id_required(sessions, session_id)
    IN  IF e # ""
        THEN [raised |-> Reraise(e, "ResilienceAssessmentError"), records |-> <<>>]
        ELSE [raised |-> "", records |-> compute_dimension_averages(entries, session_id)]

(***************************************************************************)
(* Serialisation of averages (web/routes/api.py, build_dashboard_figures)  *)
(***************************************************************************)
\* an Optional[float] of a response model: JSON null or a number
JsonNull == [null |-> TRUE, value |-> Zero]

JsonNumber(x) == [null |-> FALSE, value |-> x]

\* variant: "if not value" in place of the None and isnan tests
safe_average_falsy(value) ==
    IF IsNaN(value) \/ value = Zero THEN JsonNull ELSE JsonNumber(value)

\* _safe_average; an AverageResult.average is never None
safe_average(value) ==
    IF IsNaN(value) THEN JsonNull ELSE JsonNumber(value)

\* AverageScore(id, name, average=_safe_average(average), coverage)
AverageScore(result) ==
    [id |-> result.id, name |-> result.name,
     average |-> safe_average(result.average), coverage |-> result.coverage]

\* the tiles of build_dashboard_figures
Tile(result) ==
    [id |-> result.id, name |-> result.name,
     average |-> IF ~IsNaN(result.average) THEN JsonNumber(result.average) ELSE JsonNull,
     coverage |-> result.coverage]

\* no entry of ratings_map for a topic
NoRating == [score |-> NULL, source |-> "none"]

\* variant: the rating of the user ahead of the computed score
ratings_map_value_maturity_first(e) ==
    IF e.current_is_na THEN NoRating
    ELSE IF e.current_maturity # NULL
    THEN [score |-> e.current_maturity * Scale, source |-> "rating"]
    ELSE IF e.computed_score # NULL
    THEN [score |-> e.computed_score, source |-> "computed"]
    ELSE NoRating

\* what the loop of get_dashboard_data puts into ratings_map for one entry,
\* in hundredths
ratings_map_value(e) ==
    IF e.current_is_na THEN NoRating
    ELSE IF e.computed_score # NULL
    THEN [score |-> e.computed_score, source |-> "computed"]
    ELSE IF e.current_maturity # NULL
    THEN [score |-> e.current_maturity * Scale, source |-> "rating"]
    ELSE NoRating

\* ratings_map.get(topic_id) over the entries of the session: a computed
\* score overwrites, a rating is set by setdefault
ratings_map(es, session_id, topic_id) ==
    LET rated == { ratings_map_value(e) : e \in EntriesOfPair(es, session_id, topic_id) }
                     \ {NoRating}
    IN  IF rated = {} THEN NoRating
        ELSE IF \E r \in rated : r.source = "computed"
        THEN CHOOSE r \in rated : r.source = "computed"
        ELSE CHOOSE r \in rated : TRUE

(***************************************************************************)
(* Input validation (domain/schemas.py)                                    *)
(***************************************************************************)
ProgressState == {"not_started", "in_progress", "complete"}

\* variant: without the comparison of desired_maturity with current_maturity
validate_entry_consistency_unordered(v) ==
    /\ IF v.current_is_na
       THEN /\ v.current_maturity = NULL
            /\ v.desired_is_na
            /\ v.desired_maturity = NULL
       ELSE /\ ~(v.current_maturity = NULL /\ v.computed_score = NULL)
            /\ ~v.desired_is_na
    /\ (~v.desired_is_na) =>
            /\ v.desired_maturity # NULL
            /\ ~v.current_is_na

\* AssessmentEntryInput.validate_entry_consistency: TRUE when nothing is raised
validate_entry_consistency(v) ==
    /\ IF v.current_is_na
       THEN /\ v.current_maturity = NULL
            /\ v.desired_is_na
            /\ v.desired_maturity = NULL
       ELSE /\ ~(v.current_maturity = NULL /\ v.computed_score = NULL)
            /\ ~v.desired_is_na
    /\ (~v.desired_is_na) =>
            /\ v.desired_maturity # NULL
            /\ ~v.current_is_na
            /\ ~(v.current_maturity # NULL /\ v.desired_maturity < v.current_maturity)

\* the Field(...) constraints of AssessmentEntryInput, then the model validator
AssessmentEntryInput(v) ==
    /\ v.session_id > 0
    /\ v.topic_id > 0
    /\ v.current_maturity = NULL \/ v.current_maturity \in MinLevel..MaxLevel
    /\ v.desired_maturity = NULL \/ v.desired_maturity \in MinLevel..MaxLevel
    /\ v.computed_score = NULL \/ v.computed_score \in MinScore..MaxScore
    /\ v.progress_state \in ProgressState
    /\ validate_entry_consistency(v)

Range(s) == { s[i] : i \in 1..Len(s) }

\* SessionCombineInput: 1..50 ids, no duplicates, all positive, a non-empty name
SessionCombineInput(source_session_ids, name) ==
    /\ Len(source_session_ids) >= 1
    /\ Len(source_session_ids) <= MaxSourceIds
    /\ Cardinality(Range(source_session_ids)) = Len(source_session_ids)
    /\ \A i \in 1..Len(source_session_ids) : source_session_ids[i] > 0
    /\ name # ""

(***************************************************************************)
(* EntryRepo.upsert (infrastructure/repositories_entry.py)                 *)
(***************************************************************************)
\* the keyword parameters the signature of upsert declares
UpsertParameters ==
    {"session_id", "topic_id", "rating_level", "computed_score", "is_na", "comment"}

\* A call binds its keyword arguments to the signature first; a keyword the
\* signature does not declare raises TypeError before the body runs.  The
\* body builds AssessmentEntryInput from the declared parameters only, so
\* current_maturity, desired_maturity and the N/A flags keep their defaults.
upsert(es, kwargs) ==
    IF ~(DOMAIN kwargs \subseteq UpsertParameters)
    THEN [raised |-> "TypeError", entries |-> es]
    ELSE LET validated_data ==
                 [session_id |-> kwargs.session_id, topic_id |-> kwargs.topic_id,
                  current_maturity |-> NULL, desired_maturity |-> NULL,
                  computed_score |-> kwargs.computed_score,
                  current_is_na |-> FALSE, desired_is_na |-> FALSE,
                  progress_state |-> "not_started"]
         IN  IF ~AssessmentEntryInput(validated_data)
             THEN [raised |-> "ValidationError", entries |-> es]
             ELSE [raised |-> "AttributeError", entries |-> es]

\* the keyword arguments every caller in application/api.py passes
UpsertCall(session_id, topic_id, current_maturity, desired_maturity, computed_score, current_is_na, desired_is_na, comment, progress_state) ==
    [session_id |-> session_id, topic_id |-> topic_id,
     current_maturity |-> current_maturity, desired_maturity |-> desired_maturity,
     computed_score |-> computed_score,
     current_is_na |-> current_is_na, desired_is_na |-> desired_is_na,
     comment |-> comment, evidence_links |-> NULL,
     progress_state |-> progress_state]

(***************************************************************************)
(* combine_sessions_to_master (application/api.py)                         *)
(***************************************************************************)
\* round(): to the nearest integer, ties to even; r >= 0
RoundHalfEven(r) ==
    LET q == r.num \div r.den
        rem == r.num % r.den
    IN  IF 2 * rem < r.den THEN q
        ELSE IF 2 * rem > r.den THEN q + 1
        ELSE IF q % 2 = 0 THEN q ELSE q + 1

Max(a, b) == IF a >= b THEN a ELSE b
Min(a, b) == IF a <= b THEN a ELSE b

\* the value an entry contributes to by_topic, in hundredths
combine_value(e) ==
    IF e.computed_score # NULL THEN e.computed_score
    ELSE IF e.current_maturity # NULL THEN e.current_maturity * Scale
    ELSE NULL

\* EntryRepo.list_for_session: the entries of a session, joined to their topic
list_for_session(es, session_id) ==
    { e \in es : e.session_id = session_id /\ \E t \in topics : t.id = e.topic_id }

\* the entries whose value by_topic[topic_id] collects
by_topic(es, source_session_ids, topic_id) ==
    { e \in es :
        /\ \E i \in 1..Len(source_session_ids) :
               e \in list_for_session(es, source_session_ids[i])
        /\ e.topic_id = topic_id
        /\ ~e.current_is_na
        /\ combine_value(e) # NULL }

RECURSIVE SumValues(_)
SumValues(es) ==
    IF es = {} THEN 0
    ELSE LET e == CHOOSE x \in es : TRUE
         IN  combine_value(e) + SumValues(es \ {e})

\* sum(values) / len(values), in hundredths
average_score(values) == Rat(SumValues(values), Cardinality(values))

\* max(1, min(5, int(round(average_score))))
rounded(values) ==
    Max(MinLevel, Min(MaxLevel, RoundHalfEven(RatDivInt(average_score(values), Scale))))

CombinedComment(n, k) ==
    "Combined from " \o ToString(n) \o " ratings across " \o ToString(k) \o " sessions"

NoRatingsComment == "No ratings available in source sessions"

\* the upsert call combine_sessions_to_master makes for one topic
MasterUpsertCall(es, master_id, source_session_ids, topic_id) ==
    LET values == by_topic(es, source_session_ids, topic_id)
    IN  IF values # {}
        THEN UpsertCall(master_id, topic_id, rounded(values), rounded(values),
                        RoundHalfEven(average_score(values)), FALSE, FALSE,
                        CombinedComment(Cardinality(values), Len(source_session_ids)),
                        "complete")
        ELSE UpsertCall(master_id, topic_id, NULL, NULL, NULL, TRUE, TRUE,
                        NoRatingsComment, "not_started")

\* TopicRepo.list_all: ORDER BY dimension name, theme name, topic name
TopicKey(t) ==
    LET th == CHOOSE x \in themes : x.id = t.theme_id
        d == CHOOSE x \in dimensions : x.id = th.dimension_id
    IN  <<d.name, th.name, t.name>>

KeyLeq(a, b) ==
    \/ a[1] < b[1]
    \/ a[1] = b[1] /\ a[2] < b[2]
    \/ a[1] = b[1] /\ a[2] = b[2] /\ a[3] <= b[3]

RECURSIVE list_all(_)
list_all(ts) ==
    IF ts = {} THEN <<>>
    ELSE LET t == CHOOSE x \in ts : \A y \in ts : KeyLeq(TopicKey(x), TopicKey(y))
         IN  <<t>> \o list_all(ts \ {t})

\* the loop over all_topics: stops at the first upsert that raises
RECURSIVE CreateMasterEntries(_, _, _, _)
CreateMasterEntries(es, master_id, source_session_ids, all_topics) ==
    IF all_topics = <<>> THEN [raised |-> "", entries |-> es]
    ELSE LET r == upsert(es, MasterUpsertCall(es, master_id, source_session_ids,
                                              Head(all_topics).id))
         IN  IF r.raised # "" THEN r
             ELSE CreateMasterEntries(r.entries, master_id, source_session_ids,
                                      Tail(all_topics))

\* autoincrement primary key of assessment_sessions
NextSessionId(ss) == 1 + Cardinality(ss)

\* variant: without the check that list_all() returned topics
combine_sessions_to_master_no_topics_check(ss, es, next_id, source_session_ids, name) ==
    LET master == [id |-> next_id, name |-> name]
        r == CreateMasterEntries(es, master.id, source_session_ids, list_all(topics))
        failed(e) == [raised |-> e, master_id |-> 0, sessions |-> ss, entries |-> es]
    IN  IF ~SessionCombineInput(source_session_ids, name)
        THEN failed("ValidationError")
        ELSE IF \E i \in 1..Len(source_session_ids) :
                    \A s \in ss : s.id # source_session_ids[i]
        THEN failed("BusinessLogicError:session_combination")
        ELSE IF r.raised # ""
        THEN [raised |-> "BusinessLogicError:session_combination", master_id |-> 0,
              sessions |-> ss \cup {master}, entries |-> r.entries]
        ELSE [raised |-> "", master_id |-> master.id,
              sessions |-> ss \cup {master}, entries |-> r.entries]

\* variant: the master session is created ahead of the check of the sources
combine_sessions_to_master_create_first(ss, es, next_id, source_session_ids, name) ==
    LET master == [id |-> next_id, name |-> name]
        r == CreateMasterEntries(es, master.id, source_session_ids, list_all(topics))
        failed(e) == [raised |-> e, master_id |-> 0, sessions |-> ss, entries |-> es]
        failed_after_create(e, rows) ==
            [raised |-> e, master_id |-> 0, sessions |-> ss \cup {master}, entries |-> rows]
    IN  IF ~SessionCombineInput(source_session_ids, name)
        THEN failed("ValidationError")
        ELSE IF \E i \in 1..Len(source_session_ids) :
                    \A s \in ss : s.id # source_session_ids[i]
        THEN failed_after_create("BusinessLogicError:session_combination", es)
        ELSE IF topics = {}
        THEN failed_after_create("BusinessLogicError:topics_required_for_combination", es)
        ELSE IF r.raised # ""
        THEN failed_after_create("BusinessLogicError:session_combination", r.entries)
        ELSE [raised |-> "", master_id |-> master.id,
              sessions |-> ss \cup {master}, entries |-> r.entries]

\* outcome of combine_sessions_to_master inside the caller's transaction,
\* which sees the session rows ss and the entry rows es: the error it raises
\* ("" for none) and the rows the transaction holds when it returns or
\* raises.  The master session is flushed, with the id next_id, before the
\* topics are listed, so a later failure leaves it among the rows of the
\* transaction.
combine_sessions_to_master(ss, es, next_id, source_session_ids, name) ==
    LET master == [id |-> next_id, name |-> name]
        r == CreateMasterEntries(es, master.id, source_session_ids, list_all(topics))
        failed(e) == [raised |-> e, master_id |-> 0, sessions |-> ss, entries |-> es]
        failed_after_create(e, rows) ==
            [raised |-> e, master_id |-> 0, sessions |-> ss \cup {master}, entries |-> rows]
    IN  IF ~SessionCombineInput(source_session_ids, name)
        THEN failed("ValidationError")
        ELSE IF \E i \in 1..Len(source_session_ids) :
                    \A s \in ss : s.id # source_session_ids[i]
        THEN failed("BusinessLogicError:session_combination")
        ELSE IF topics = {}
        THEN failed_after_create("BusinessLogicError:topics_required_for_combination", es)
        ELSE IF r.raised # ""
        THEN failed_after_create("BusinessLogicError:session_combination", r.entries)
        ELSE [raised |-> "", master_id |-> master.id,
              sessions |-> ss \cup {master}, entries |-> r.entries]

(***************************************************************************)
(* record_topic_rating and import_session_results (application/api.py)     *)
(***************************************************************************)
\* variant: without the validate_input check ahead of the try block
record_topic_rating_unvalidated(session_id, topic_id, v) ==
    LET r == upsert(entries,
                    UpsertCall(session_id, topic_id, v.current_maturity,
                               v.desired_maturity, NULL, v.current_is_na,
                               v.desired_is_na, v.comment, v.progress_state))
        failed(e) == [raised |-> e, entries |-> entries]
    IN  IF \A s \in sessions : s.id # session_id
        THEN failed("ResilienceAssessmentError")
        ELSE IF \A t \in topics : t.id # topic_id
        THEN failed("TopicNotFoundError")
        ELSE IF r.raised # ""
        THEN failed("ResilienceAssessmentError")
        ELSE [raised |-> "", entries |-> r.entries]

\* outcome of record_topic_rating inside the caller's transaction
record_topic_rating(session_id, topic_id, v) ==
    LET data == [session_id |-> session_id, topic_id |-> topic_id,
                 current_maturity |-> v.current_maturity,
                 desired_maturity |-> v.desired_maturity,
                 computed_score |-> NULL,
                 current_is_na |-> v.current_is_na,
                 desired_is_na |-> v.desired_is_na,
                 progress_state |-> v.progress_state]
        r == upsert(entries,
                    UpsertCall(session_id, topic_id, v.current_maturity,
                               v.desired_maturity, NULL, v.current_is_na,
                               v.desired_is_na, v.comment, v.progress_state))
        failed(e) == [raised |-> e, entries |-> entries]
    IN  IF ~AssessmentEntryInput(data)
        THEN failed("ValidationError")
        ELSE IF \A s \in sessions : s.id # session_id
        THEN failed("ResilienceAssessmentError")
        ELSE IF \A t \in topics : t.id # topic_id
        THEN failed("TopicNotFoundError")
        ELSE IF r.raised # ""
        THEN failed("ResilienceAssessmentError")
        ELSE [raised |-> "", entries |-> r.entries]

\* a spreadsheet cell that int(float(...)) cannot parse
Unparsable == -2

\* the row loop of import_session_results: validation errors are collected,
\* any other exception of upsert leaves the loop
RECURSIVE ImportRows(_, _, _, _, _)
ImportRows(es, session_id, records, processed, validation_errors) ==
    IF records = <<>>
    THEN [raised |-> IF validation_errors > 0 THEN "MultipleValidationError" ELSE "",
          processed |-> processed, entries |-> es]
    ELSE LET row == Head(records)
             rest == Tail(records)
             desired_raw == IF row.DesiredMaturity = NULL THEN row.CurrentMaturity
                            ELSE row.DesiredMaturity
             r == upsert(es, UpsertCall(session_id, row.TopicID, row.CurrentMaturity,
                                        desired_raw, row.ComputedScore, row.CurrentNA,
                                        row.CurrentNA, "", "not_started"))
         IN  IF row.TopicID = NULL
             THEN ImportRows(es, session_id, rest, processed, validation_errors)
             ELSE IF \A t \in topics : t.id # row.TopicID
             THEN ImportRows(es, session_id, rest, processed, validation_errors + 1)
             ELSE IF row.CurrentMaturity = Unparsable
             THEN ImportRows(es, session_id, rest, processed, validation_errors + 1)
             ELSE IF /\ row.CurrentMaturity = NULL /\ desired_raw = NULL
                     /\ row.ComputedScore = NULL /\ ~row.CurrentNA
             THEN ImportRows(es, session_id, rest, processed, validation_errors)
             ELSE IF r.raised = "ValidationError"
             THEN ImportRows(es, session_id, rest, processed, validation_errors + 1)
             ELSE IF r.raised # ""
             THEN [raised |-> "ImportError", processed |-> processed, entries |-> es]
             ELSE ImportRows(r.entries, session_id, rest, processed + 1, validation_errors)

import_session_results(session_id, records) ==
    IF \A s \in sessions : s.id # session_id
    THEN [raised |-> "ImportError", processed |-> 0, entries |-> entries]
    ELSE IF records = <<>>
    THEN [raised |-> "", processed |-> 0, entries |-> entries]
    ELSE ImportRows(entries, session_id, records, 0, 0)

(***************************************************************************)
(* Initial states: a seeded catalog and any entry table the schema admits  *)
(***************************************************************************)
\* session 1 may hold an entry for any topic, the other sessions for topic 1
Slots ==
    { k \in (1..MaxSessions) \X (1..MaxTopics) : k[1] = 1 \/ k[2] = 1 }

Init ==
    /\ dimensions = SeedDimensions
    /\ themes = SeedThemes
    /\ topics \in {SeedTopics, {}}
    /\ sessions = SeedSessions
    /\ \E K \in SUBSET Slots :
         /\ Cardinality(K) <= MaxEntries
         /\ topics = {} => K = {}
         /\ \E f \in [K -> EntryValues] :
              entries = { EntryRow(k[1], k[2], f[k]) : k \in K }
    /\ uq_session_topic(entries)
    /\ \A e \in entries : ck_entry_scores(e)
    /\ response = NoResponse
    /\ tx = [c \in 1..MaxClients |-> NoTx]

(***************************************************************************)
(* Operations                                                              *)
(***************************************************************************)
SessionIdInputs == 0..(MaxSessions + 1)

\* variant: a session that does not exist is created before the query runs
ComputeThemeAverages_get_or_create(session_id) ==
    /\ response' = [NoResponse EXCEPT !.op = "compute_theme_averages",
                                      !.session_id = session_id,
                                      !.status = "ok",
                                      !.records = compute_theme_averages(entries, session_id)]
    /\ sessions' = sessions \cup { [id |-> session_id, name |-> "Baseline"] }
    /\ UNCHANGED <<dimensions, themes, topics, entries, tx>>

ComputeThemeAverages(session_id) ==
    /\ response' = [NoResponse EXCEPT !.op = "compute_theme_averages",
                                      !.session_id = session_id,
                                      !.status = "ok",
                                      !.records = compute_theme_averages(entries, session_id)]
    /\ UNCHANGED <<dimensions, themes, topics, sessions, entries, tx>>

ComputeDimensionAverages(session_id) ==
    /\ response' = [NoResponse EXCEPT !.op = "compute_dimension_averages",
                                      !.session_id = session_id,
                                      !.status = "ok",
                                      !.records = compute_dimension_averages(entries, session_id)]
    /\ UNCHANGED <<dimensions, themes, topics, sessions, entries, tx>>


\* a caller of application/api.compute_theme_averages
ApiComputeThemeAverages(session_id) ==
    LET r == api_compute_theme_averages(session_id)
    IN  /\ response' = [NoResponse EXCEPT !.op = "api.compute_theme_averages",
                                          !.session_id = session_id,
                                          !.status = IF r.raised = "" THEN "ok" ELSE "error",
                                          !.error = r.raised,
                                          !.records = r.records]
        /\ UNCHANGED <<dimensions, themes, topics, sessions, entries, tx>>

\* a caller of application/api.compute_dimension_averages
ApiComputeDimensionAverages(session_id) ==
    LET r == api_compute_dimension_averages(session_id)
    IN  /\ response' = [NoResponse EXCEPT !.op = "api.compute_dimension_averages",
                                          !.session_id = session_id,
                                          !.status = IF r.raised = "" THEN "ok" ELSE "error",
                                          !.error = r.raised,
                                          !.records = r.records]
        /\ UNCHANGED <<dimensions, themes, topics, sessions, entries, tx>>

\* the topic_scores of get_dashboard_data: the topics in catalog order that
\* have an entry in ratings_map
topic_scores(es, session_id) ==
    LET topic_rows == list_all(topics)
        rated == SelectSeq(topic_rows,
                           LAMBDA row : ratings_map(es, session_id, row.id) # NoRating)
    IN  [i \in 1..Len(rated) |->
            [topic_id |-> rated[i].id, theme_id |-> rated[i].theme_id,
             score |-> ratings_map(es, session_id, rated[i].id).score,
             source |-> ratings_map(es, session_id, rated[i].id).source]]

\* GET /sessions/{session_id}/dashboard: the dimension scores followed by
\* the theme scores, and the topic scores; an application error becomes a
\* 400 answer
GetDashboardData(session_id) ==
    LET d == api_compute_dimension_averages(session_id)
        t == api_compute_theme_averages(session_id)
        answer == [NoResponse EXCEPT !.op = "get_dashboard_data",
                                     !.session_id = session_id]
    IN  /\ response' =
             IF d.raised # "" \/ t.raised # ""
             THEN [answer EXCEPT !.status = "error", !.error = "HTTP_400_BAD_REQUEST"]
             ELSE [answer EXCEPT !.status = "ok",
                                 !.records =
                                     [i \in DOMAIN d.records |-> AverageScore(d.records[i])]
                                     \o [i \in DOMAIN t.records |-> AverageScore(t.records[i])],
                                 !.topic_scores = topic_scores(entries, session_id)]
        /\ UNCHANGED <<dimensions, themes, topics, sessions, entries, tx>>

\* GET /sessions/{session_id}/dashboard/figures: the dimension tiles
GetDashboardFigures(session_id) ==
    LET d == api_compute_dimension_averages(session_id)
        answer == [NoResponse EXCEPT !.op = "get_dashboard_figures",
                                     !.session_id = session_id]
    IN  /\ response' =
             IF d.raised # ""
             THEN [answer EXCEPT !.status = "error", !.error = "HTTP_400_BAD_REQUEST"]
             ELSE [answer EXCEPT !.status = "ok",
                                 !.records = [i \in DOMAIN d.records |-> Tile(d.records[i])]]
        /\ UNCHANGED <<dimensions, themes, topics, sessions, entries, tx>>

\* a set of ids as an ascending list
RECURSIVE Ascending(_)
Ascending(S) ==
    IF S = {} THEN <<>>
    ELSE LET m == CHOOSE x \in S : \A y \in S : x <= y
         IN  <<m>> \o Ascending(S \ {m})

\* request bodies: lists of distinct ids, and one list that repeats an id
SourceIdInputs ==
    { Ascending(S) : S \in { T \in SUBSET SessionIdInputs : Cardinality(T) <= MaxSources } }
        \cup { <<1, 1>> }

CombineInputs ==
    { [source_session_ids |-> ids, name |-> "Master"] : ids \in SourceIdInputs }
        \cup { [source_session_ids |-> <<1>>, name |-> ""] }

\* POST /sessions/combine: commit on success, rollback on any exception
CombineSessions(source_session_ids, name) ==
    LET r == combine_sessions_to_master(sessions, entries, NextSessionId(sessions),
                                        source_session_ids, name)
        answer(status, error, master_id) ==
            [NoResponse EXCEPT !.op = "combine_sessions",
                               !.source_ids = source_session_ids,
                               !.name = name,
                               !.status = status, !.error = error,
                               !.master_id = master_id]
    IN  IF source_session_ids = <<>>
        THEN /\ response' = answer("error", "HTTP_400_BAD_REQUEST", 0)
             /\ UNCHANGED <<dimensions, themes, topics, sessions, entries, tx>>
        ELSE IF r.raised # ""
        THEN /\ response' = answer("error", r.raised, 0)
             /\ UNCHANGED <<dimensions, themes, topics, sessions, entries, tx>>
        ELSE /\ response' = answer("ok", "", r.master_id)
             /\ sessions' = r.sessions
             /\ entries' = r.entries
             /\ UNCHANGED <<dimensions, themes, topics, tx>>

\* rating payloads: a valid rating, a valid N/A, an N/A that keeps a maturity
RatingInputs ==
    { [current_maturity |-> 4, desired_maturity |-> 5, current_is_na |-> FALSE,
       desired_is_na |-> FALSE, comment |-> "", progress_state |-> "in_progress"],
      [current_maturity |-> NULL, desired_maturity |-> NULL, current_is_na |-> TRUE,
       desired_is_na |-> TRUE, comment |-> "", progress_state |-> "in_progress"],
      [current_maturity |-> 3, desired_maturity |-> NULL, current_is_na |-> TRUE,
       desired_is_na |-> TRUE, comment |-> "", progress_state |-> "in_progress"] }

\* a caller of record_topic_rating: commit on success, rollback on any exception
RecordTopicRating(session_id, topic_id, v) ==
    LET r == record_topic_rating(session_id, topic_id, v)
    IN  /\ response' = [NoResponse EXCEPT !.op = "record_topic_rating",
                                          !.session_id = session_id,
                                          !.input = [topic_id |-> topic_id, rating |-> v],
                                          !.status = IF r.raised = "" THEN "ok" ELSE "error",
                                          !.error = r.raised]
        /\ entries' = IF r.raised = "" THEN r.entries ELSE entries
        /\ UNCHANGED <<dimensions, themes, topics, sessions, tx>>

\* arguments of a caller that uses the parameters upsert declares: a rating
\* together with N/A, a rating, N/A
UpsertInputs ==
    { [rating_level |-> 3, computed_score |-> NULL, is_na |-> TRUE, comment |-> ""],
      [rating_level |-> 3, computed_score |-> NULL, is_na |-> FALSE, comment |-> ""],
      [rating_level |-> NULL, computed_score |-> NULL, is_na |-> TRUE, comment |-> ""] }

\* restore_data of utils/backup.py for one entry: commit, or rollback on any
\* exception
Upsert(session_id, topic_id, a) ==
    LET r == upsert(entries,
                    [session_id |-> session_id, topic_id |-> topic_id,
                     rating_level |-> a.rating_level,
                     computed_score |-> a.computed_score,
                     is_na |-> a.is_na, comment |-> a.comment])
    IN  /\ response' = [NoResponse EXCEPT !.op = "upsert",
                                          !.session_id = session_id,
                                          !.input = [topic_id |-> topic_id, rating |-> a],
                                          !.status = IF r.raised = "" THEN "ok" ELSE "error",
                                          !.error = r.raised]
        /\ entries' = IF r.raised = "" THEN r.entries ELSE entries
        /\ UNCHANGED <<dimensions, themes, topics, sessions, tx>>

ImportRowInputs ==
    { [TopicID |-> 1, CurrentMaturity |-> 2, DesiredMaturity |-> NULL,
       ComputedScore |-> NULL, CurrentNA |-> FALSE],
      [TopicID |-> NULL, CurrentMaturity |-> 2, DesiredMaturity |-> NULL,
       ComputedScore |-> NULL, CurrentNA |-> FALSE],
      [TopicID |-> MaxTopics + 1, CurrentMaturity |-> 2, DesiredMaturity |-> NULL,
       ComputedScore |-> NULL, CurrentNA |-> FALSE],
      [TopicID |-> 1, CurrentMaturity |-> Unparsable, DesiredMaturity |-> NULL,
       ComputedScore |-> NULL, CurrentNA |-> FALSE] }

DataframeInputs == UNION { [1..n -> ImportRowInputs] : n \in 0..MaxRows }

\* POST /sessions/{session_id}/imports/xlsx: commit on success, else rollback
ImportSessionXlsx(session_id, records) ==
    LET r == import_session_results(session_id, records)
    IN  /\ response' = [NoResponse EXCEPT !.op = "import_session_xlsx",
                                          !.session_id = session_id,
                                          !.input = records,
                                          !.status = IF r.raised = "" THEN "ok" ELSE "error",
                                          !.error = r.raised,
                                          !.processed = IF r.raised = "" THEN r.processed ELSE 0]
        /\ entries' = IF r.raised = "" THEN r.entries ELSE entries
        /\ UNCHANGED <<dimensions, themes, topics, sessions, tx>>

Next ==
    \/ \E sid \in SessionIdInputs : ComputeThemeAverages(sid)
    \/ \E sid \in SessionIdInputs : ComputeDimensionAverages(sid)
    \/ \E c \in CombineInputs : CombineSessions(c.source_session_ids, c.name)
    \/ \E sid \in {1, MaxSessions + 1}, tid \in {1, MaxTopics + 1}, v \in RatingInputs :
            RecordTopicRating(sid, tid, v)
    \/ \E sid \in {1, MaxSessions + 1}, df \in DataframeInputs : ImportSessionXlsx(sid, df)
    \/ \E a \in UpsertInputs : Upsert(1, 1, a)

Spec == Init /\ [][Next]_vars

(***************************************************************************)
(* The callers of the application functions that compute averages, over    *)
(* the stores in which session 1 holds the entries                         *)
(***************************************************************************)
InitApi ==
    /\ dimensions = SeedDimensions
    /\ themes = SeedThemes
    /\ topics \in {SeedTopics, {}}
    /\ sessions = SeedSessions
    /\ \E K \in SUBSET { t.id : t \in topics } :
         /\ Cardinality(K) <= MaxEntries
         /\ \E f \in [K -> EntryValues] :
              entries = { EntryRow(1, k, f[k]) : k \in K }
    /\ response = NoResponse
    /\ tx = [c \in 1..MaxClients |-> NoTx]

\* request bodies naming an existing session, a missing one, and both
ApiCombineInputs ==
    { [source_session_ids |-> ids, name |-> "Master"] :
        ids \in { <<1>>, <<MaxSessions + 1>>, <<1, MaxSessions + 1>> } }

NextApi ==
    \/ \E sid \in SessionIdInputs : ApiComputeThemeAverages(sid)
    \/ \E sid \in SessionIdInputs : ApiComputeDimensionAverages(sid)
    \/ \E sid \in SessionIdInputs : GetDashboardData(sid)
    \/ \E sid \in SessionIdInputs : GetDashboardFigures(sid)
    \/ \E c \in ApiCombineInputs : CombineSessions(c.source_session_ids, c.name)

SpecApi == InitApi /\ [][NextApi]_vars

(***************************************************************************)
(* Requests in flight.  Every request runs in a database session of its    *)
(* own (web/dependencies.py): the application function reads the committed *)
(* rows and flushes its writes into the transaction of the request, and    *)
(* the route commits or rolls back afterwards.  Other requests run in      *)
(* between and read committed rows only.                                   *)
(***************************************************************************)
Clients == 1..MaxClients

\* the next value of the autoincrement key: ids flushed by transactions that
\* were rolled back, or are still open, are not handed out again
AllocatedSessionId ==
    1 + Cardinality(sessions \cup UNION { tx[c].new_sessions : c \in Clients })

\* request bodies of the requests that run side by side: one source, all
\* sessions, a session that does not exist, an id given twice
ConcurrentCombineInputs ==
    { [source_session_ids |-> <<1>>, name |-> "Master"],
      [source_session_ids |-> Ascending(1..MaxSessions), name |-> "Master"],
      [source_session_ids |-> <<MaxSessions + 1>>, name |-> "Master"],
      [source_session_ids |-> <<1, 1>>, name |-> "Master"] }

\* combine_sessions up to the return of combine_sessions_to_master
CombineBegin(c, source_session_ids, name) ==
    LET r == combine_sessions_to_master(sessions, entries, AllocatedSessionId,
                                        source_session_ids, name)
    IN  /\ tx[c].phase = "idle"
        /\ tx' = [tx EXCEPT ![c] =
                    [phase |-> "open", op |-> "combine_sessions",
                     input |-> [source_session_ids |-> source_session_ids, name |-> name],
                     raised |-> r.raised, master_id |-> r.master_id,
                     visible |-> {},
                     new_sessions |-> r.sessions \ sessions,
                     new_entries |-> r.entries \ entries]]
        /\ UNCHANGED <<dimensions, themes, topics, sessions, entries, response>>

\* update_single_rating up to the return of record_topic_rating
RatingBegin(c, session_id, topic_id, v) ==
    LET r == record_topic_rating(session_id, topic_id, v)
    IN  /\ tx[c].phase = "idle"
        /\ tx' = [tx EXCEPT ![c] =
                    [phase |-> "open", op |-> "record_topic_rating",
                     input |-> [session_id |-> session_id, topic_id |-> topic_id,
                                rating |-> v],
                     raised |-> r.raised, master_id |-> 0,
                     visible |-> EntriesOfPair(entries, session_id, topic_id),
                     new_sessions |-> {},
                     new_entries |-> r.entries \ entries]]
        /\ UNCHANGED <<dimensions, themes, topics, sessions, entries, response>>

\* variant: db.commit() whether or not the function raised
RequestEnd_commit_always(c) ==
    /\ tx[c].phase = "open"
    /\ sessions' = sessions \cup tx[c].new_sessions
    /\ entries' = entries \cup tx[c].new_entries
    /\ tx' = [tx EXCEPT ![c].phase = "done"]
    /\ UNCHANGED <<dimensions, themes, topics, response>>

\* the end of the route: db.commit() when the function returned, db.rollback()
\* when it raised or when the commit violates uq_session_topic
RequestEnd(c) ==
    LET committed == entries \cup tx[c].new_entries
    IN  /\ tx[c].phase = "open"
        /\ IF tx[c].raised # ""
           THEN /\ tx' = [tx EXCEPT ![c].phase = "done"]
                /\ UNCHANGED <<sessions, entries>>
           ELSE IF ~uq_session_topic(committed)
           THEN /\ tx' = [tx EXCEPT ![c].phase = "done", ![c].raised = "IntegrityError"]
                /\ UNCHANGED <<sessions, entries>>
           ELSE /\ tx' = [tx EXCEPT ![c].phase = "done"]
                /\ sessions' = sessions \cup tx[c].new_sessions
                /\ entries' = committed
        /\ UNCHANGED <<dimensions, themes, topics, response>>

\* GET /sessions/{session_id}: get_session_summary, a reader of committed rows
GetSession(session_id) ==
    /\ response' =
         IF \A s \in sessions : s.id # session_id
         THEN [NoResponse EXCEPT !.op = "get_session", !.session_id = session_id,
                                 !.status = "error",
                                 !.error = "ResilienceAssessmentError"]
         ELSE [NoResponse EXCEPT !.op = "get_session", !.session_id = session_id,
                                 !.status = "ok",
                                 !.statistics =
                                     [total_topics |-> Cardinality(topics),
                                      total_entries |->
                                          Cardinality(list_for_session(entries, session_id))]]
    /\ UNCHANGED <<dimensions, themes, topics, sessions, entries, tx>>

\* stores of the side-by-side requests: at most one entry, of session 1, topic 1
InitConcurrent ==
    /\ dimensions = SeedDimensions
    /\ themes = SeedThemes
    /\ topics \in {SeedTopics, {}}
    /\ sessions = SeedSessions
    /\ entries \in {{}} \cup { {EntryRow(1, 1, v)} : v \in IF topics = {} THEN {} ELSE EntryValues }
    /\ response = NoResponse
    /\ tx = [c \in Clients |-> NoTx]

NextConcurrent ==
    \/ \E c \in Clients, i \in ConcurrentCombineInputs :
            CombineBegin(c, i.source_session_ids, i.name)
    \/ \E c \in Clients, v \in RatingInputs : RatingBegin(c, 1, 1, v)
    \/ \E c \in Clients : RequestEnd(c)
    \/ \E sid \in 1..(MaxSessions + 1) : GetSession(sid)

SpecConcurrent == InitConcurrent /\ [][NextConcurrent]_vars

(***************************************************************************)
(* validate_input(AssessmentEntryInput, data) on its own                   *)
(***************************************************************************)
\* levels: none, below the range, two in range, above the range
LevelInputs == {NULL, MinLevel - 1, 2, 4, MaxLevel + 1}

ScoreInputs == {NULL, 250}

EntryInputs ==
    [session_id : {1}, topic_id : {1},
     current_maturity : LevelInputs, desired_maturity : LevelInputs,
     computed_score : ScoreInputs,
     current_is_na : BOOLEAN, desired_is_na : BOOLEAN,
     progress_state : {"not_started"}]

\* validate_input: success when the schema accepts the data
ValidateInput(data) ==
    /\ response' = [NoResponse EXCEPT !.op = "validate_input",
                                      !.input = data,
                                      !.status = IF AssessmentEntryInput(data)
                                                 THEN "ok" ELSE "error"]
    /\ UNCHANGED <<dimensions, themes, topics, sessions, entries, tx>>

\* arguments of clamp_rating: None and the integers around the range 1..5
ClampInputs == {NULL} \cup (((MinLevel - 4)..(MaxLevel + 3)) \ {NULL})

\* a caller of clamp_rating
ClampRating(level) ==
    LET r == clamp_rating(level)
    IN  /\ response' = [NoResponse EXCEPT !.op = "clamp_rating",
                                          !.input = level,
                                          !.status = IF r.raised = "" THEN "ok" ELSE "error",
                                          !.error = r.raised,
                                          !.result = r.value]
        /\ UNCHANGED <<dimensions, themes, topics, sessions, entries, tx>>

InitValidation ==
    /\ dimensions = SeedDimensions
    /\ themes = SeedThemes
    /\ topics = SeedTopics
    /\ sessions = SeedSessions
    /\ entries = {}
    /\ response = NoResponse
    /\ tx = [c \in Clients |-> NoTx]

NextValidation ==
    \/ \E data \in EntryInputs : ValidateInput(data)
    \/ \E level \in ClampInputs : ClampRating(level)

SpecValidation == InitValidation /\ [][NextValidation]_vars

(***************************************************************************)
(* Properties                                                              *)
(***************************************************************************)
\* the effective score of an entry, in hundredths (NULL for none)
EffectiveScore(e) ==
    IF e.current_is_na THEN NULL
    ELSE IF e.computed_score # NULL THEN e.computed_score
    ELSE IF e.current_maturity # NULL THEN e.current_maturity * Scale
    ELSE NULL

RECURSIVE SumOver(_, _)
SumOver(S, f) ==
    IF S = {} THEN 0
    ELSE LET x == CHOOSE y \in S : TRUE
         IN  f[x] + SumOver(S \ {x}, f)

ThemeRecordsReturned ==
    response.op = "compute_theme_averages" /\ response.status = "ok"

DimensionRecordsReturned ==
    response.op = "compute_dimension_averages" /\ response.status = "ok"

TopicsOf(th) == { t \in topics : t.theme_id = th.id }

\* the entries of the answered session that belong to a theme
ThemeEntries(th) ==
    { e \in entries :
        e.session_id = response.session_id /\ \E t \in TopicsOf(th) : t.id = e.topic_id }

ThemeOfRecord(r) == CHOOSE th \in themes : th.id = r.id

\* the topics of a theme that have an effective score in the answered session
RatedTopics(th) ==
    { t \in TopicsOf(th) :
        \E e \in ThemeEntries(th) : e.topic_id = t.id /\ EffectiveScore(e) # NULL }

TopicScore(th, t) ==
    EffectiveScore(CHOOSE e \in ThemeEntries(th) :
                       e.topic_id = t.id /\ EffectiveScore(e) # NULL)

\* C1: an entry that is not N/A and holds both a computed_score and a
\* current_maturity contributes its computed_score, never its
\* current_maturity, to the average of its theme.
C1_ComputedScorePreferred ==
    ThemeRecordsReturned =>
        \A i \in DOMAIN response.records :
            LET r == response.records[i]
                th == ThemeOfRecord(r)
                both == { e \in ThemeEntries(th) :
                            /\ ~e.current_is_na
                            /\ e.computed_score # NULL
                            /\ e.current_maturity # NULL }
                single == { e \in ThemeEntries(th) :
                              /\ ~e.current_is_na
                              /\ (e.computed_score = NULL) # (e.current_maturity = NULL) }
                total == SumOver(both, [e \in both |-> e.computed_score])
                         + SumOver(single, [e \in single |->
                               IF e.computed_score # NULL THEN e.computed_score
                               ELSE e.current_maturity * Scale])
            IN  both # {} =>
                    /\ ~IsNaN(r.average)
                    /\ r.average.num * Cardinality(both \cup single) = r.average.den * total

C1_Witness ==
    /\ ThemeRecordsReturned
    /\ \E i \in DOMAIN response.records :
           \E e \in ThemeEntries(ThemeOfRecord(response.records[i])) :
               /\ ~e.current_is_na
               /\ e.computed_score = 425
               /\ e.current_maturity = 2
               /\ response.records[i].average = Rat(425, 1)

\* C2: for a theme with at least one topic, average is the unweighted mean of
\* the effective scores of the rated topics (NaN when none is rated) and
\* coverage is rated_count / total_topics, hence 1 when every topic is rated.
C2_ThemeAverageAndCoverage ==
    ThemeRecordsReturned =>
        \A i \in DOMAIN response.records :
            LET r == response.records[i]
                th == ThemeOfRecord(r)
                rated == RatedTopics(th)
                total == SumOver(rated, [t \in rated |-> TopicScore(th, t)])
            IN  TopicsOf(th) # {} =>
                    /\ IsNaN(r.average) <=> rated = {}
                    /\ rated # {} =>
                           r.average.num * Cardinality(rated) = r.average.den * total
                    /\ r.coverage.num * Cardinality(TopicsOf(th))
                           = r.coverage.den * Cardinality(rated)
                    /\ rated = TopicsOf(th) => r.coverage = Rat(1, 1)

C2_Witness ==
    /\ ThemeRecordsReturned
    /\ \E i \in DOMAIN response.records :
           LET r == response.records[i]
               th == ThemeOfRecord(r)
           IN  /\ Cardinality(TopicsOf(th)) = 2
               /\ RatedTopics(th) = TopicsOf(th)
               /\ r.coverage = Rat(1, 1)
               /\ r.average = Rat(725, 2)

\* C3: an entry with current_is_na = true contributes nothing, whatever its
\* computed_score and current_maturity hold: the records are those of the
\* same session without its N/A entries, as if the topics had no entry.
C3_NotApplicableContributesNothing ==
    ThemeRecordsReturned =>
        response.records =
            compute_theme_averages({ e \in entries : ~e.current_is_na }, response.session_id)

C3_Witness ==
    /\ ThemeRecordsReturned
    /\ \E e \in entries :
           /\ e.session_id = response.session_id
           /\ e.current_is_na
           /\ e.computed_score # NULL
           /\ e.current_maturity # NULL
    /\ \E i \in DOMAIN response.records : ~IsNaN(response.records[i].average)

\* C4: a theme with zero topics is reported with average NaN and coverage
\* 0.0, in a normal answer.
C4_ThemeWithoutTopics ==
    response.op = "compute_theme_averages" =>
        /\ response.status = "ok"
        /\ \A th \in themes :
               TopicsOf(th) = {} =>
                   \E i \in DOMAIN response.records :
                       /\ response.records[i].id = th.id
                       /\ IsNaN(response.records[i].average)
                       /\ response.records[i].coverage = Zero

C4_Witness ==
    /\ ThemeRecordsReturned
    /\ entries # {}
    /\ topics # {}
    /\ \E th \in themes :
           /\ TopicsOf(th) = {}
           /\ \E i \in DOMAIN response.records :
                  response.records[i].id = th.id /\ IsNaN(response.records[i].average)

RatLeq(a, b) == a.num * b.den <= b.num * a.den

\* C5: every theme record and every dimension record has
\* 0.0 <= coverage <= 1.0, whatever requests came before.
C5_CoverageInUnitInterval ==
    (ThemeRecordsReturned \/ DimensionRecordsReturned) =>
        \A i \in DOMAIN response.records :
            /\ ~IsNaN(response.records[i].coverage)
            /\ RatLeq(Zero, response.records[i].coverage)
            /\ RatLeq(response.records[i].coverage, Rat(1, 1))

C5_Witness ==
    /\ ThemeRecordsReturned
    /\ \E e1 \in entries : \E e2 \in entries :
           e1.topic_id = e2.topic_id /\ e1.session_id # e2.session_id
    /\ \E i \in DOMAIN response.records : response.records[i].coverage = Rat(1, 1)

RatEq(a, b) == a.num * b.den = b.num * a.den

\* the theme records of the answered session that belong to a dimension
ThemeRecordsOf(d) ==
    LET trs == compute_theme_averages(entries, response.session_id)
    IN  { trs[i] : i \in { j \in DOMAIN trs : ThemeOfRecord(trs[j]).dimension_id = d.id } }

RECURSIVE RatSumOver(_, _)
RatSumOver(S, f) ==
    IF S = {} THEN Zero
    ELSE LET x == CHOOSE y \in S : TRUE
         IN  RatAdd(f[x], RatSumOver(S \ {x}, f))

\* C6: a dimension's average is the unweighted mean of the non-NaN averages
\* of its themes (NaN when it has no theme or only NaN themes) and its
\* coverage the unweighted mean of the coverages of all its themes (0.0 when
\* it has none).
C6_DimensionMeanOfThemes ==
    DimensionRecordsReturned =>
        \A i \in DOMAIN response.records :
            LET r == response.records[i]
                d == CHOOSE x \in dimensions : x.id = r.id
                ts == ThemeRecordsOf(d)
                rated == { t \in ts : ~IsNaN(t.average) }
            IN  /\ IsNaN(r.average) <=> rated = {}
                /\ rated # {} =>
                       RatEq(RatAdd(Zero, [r.average EXCEPT !.num = @ * Cardinality(rated)]),
                             RatSumOver(rated, [t \in rated |-> t.average]))
                /\ ts = {} => r.coverage = Zero
                /\ ts # {} =>
                       RatEq(RatAdd(Zero, [r.coverage EXCEPT !.num = @ * Cardinality(ts)]),
                             RatSumOver(ts, [t \in ts |-> t.coverage]))

C6_Witness ==
    /\ DimensionRecordsReturned
    /\ \E i \in DOMAIN response.records :
           LET r == response.records[i]
               d == CHOOSE x \in dimensions : x.id = r.id
               ts == ThemeRecordsOf(d)
           IN  /\ \E t \in ts : IsNaN(t.average) /\ t.coverage = Zero
               /\ \E t \in ts : ~IsNaN(t.average) /\ t.coverage = Rat(1, 2)
               /\ r.average = Rat(300, 1)
               /\ r.coverage = Rat(1, 4)
    /\ \E i \in DOMAIN response.records :
           /\ IsNaN(response.records[i].average)
           /\ \A th \in themes : th.dimension_id # response.records[i].id

\* C7: compute_theme_averages returns exactly one record for every theme of
\* the catalog, and never two records for the same theme.
C7_OneRecordPerTheme ==
    response.op = "compute_theme_averages" =>
        /\ response.status = "ok"
        /\ Len(response.records) = Cardinality(themes)
        /\ \A th \in themes :
               Cardinality({ i \in DOMAIN response.records :
                               response.records[i].id = th.id }) = 1

C7_Witness ==
    /\ ThemeRecordsReturned
    /\ Len(response.records) = 3
    /\ \E th \in themes : TopicsOf(th) = {}
    /\ \E th \in themes : TopicsOf(th) # {} /\ ThemeEntries(th) = {}
    /\ \E th \in themes : ThemeEntries(th) # {}

\* a combine request that passes validation, names existing source sessions
\* and meets a catalog with topics
CombineRequestAccepted ==
    /\ response.op = "combine_sessions"
    /\ SessionCombineInput(response.source_ids, response.name)
    /\ \A i \in DOMAIN response.source_ids :
           /\ response.source_ids[i] # response.master_id
           /\ \E s \in sessions : s.id = response.source_ids[i]
    /\ topics # {}

\* the entries of the master session the request created
MasterEntries ==
    { e \in entries :
        /\ e.session_id = response.master_id
        /\ \E s \in sessions : s.id = response.master_id }

\* the source entries of a topic that have an effective score
SourceScores(t) ==
    { e \in entries :
        /\ \E i \in DOMAIN response.source_ids : e.session_id = response.source_ids[i]
        /\ e.topic_id = t.id
        /\ EffectiveScore(e) # NULL }

\* C8: a combination gives every topic of the catalog exactly one entry in
\* the new master session: no topic is missing, none has two entries.
C8_OneMasterEntryPerTopic ==
    CombineRequestAccepted =>
        /\ response.status = "ok"
        /\ \A t \in topics :
               Cardinality({ e \in MasterEntries : e.topic_id = t.id }) = 1
        /\ \A e \in MasterEntries : \E t \in topics : t.id = e.topic_id

\* C9: for every topic with at least one effective score among the source
\* sessions, the master entry has computed_score = the mean of those scores
\* rounded to 2 decimal places, current_is_na = desired_is_na = false and
\* progress_state = "complete".
C9_MasterEntryOfRatedTopic ==
    CombineRequestAccepted =>
        \A t \in topics :
            LET values == SourceScores(t)
                total == SumOver(values, [e \in values |-> EffectiveScore(e)])
                n == Cardinality(values)
            IN  values # {} =>
                    \E e \in MasterEntries :
                        /\ e.topic_id = t.id
                        /\ e.computed_score # NULL
                        /\ 2 * Abs(e.computed_score * n - total) <= n
                        /\ ~e.current_is_na
                        /\ ~e.desired_is_na
                        /\ e.progress_state = "complete"

\* C10: for every topic without any effective score among the source
\* sessions, the master entry has current_is_na = desired_is_na = true, no
\* current_maturity, desired_maturity or computed_score, the comment
\* "No ratings available in source sessions" and progress_state "not_started".
C10_MasterEntryOfUnratedTopic ==
    CombineRequestAccepted =>
        \A t \in topics :
            SourceScores(t) = {} =>
                \E e \in MasterEntries :
                    /\ e.topic_id = t.id
                    /\ e.current_is_na
                    /\ e.desired_is_na
                    /\ e.current_maturity = NULL
                    /\ e.desired_maturity = NULL
                    /\ e.computed_score = NULL
                    /\ e.comment = "No ratings available in source sessions"
                    /\ e.progress_state = "not_started"

\* C11: with a catalog of zero topics a combine request that passes
\* validation and names existing source sessions fails with the business-rule
\* error topics_required_for_combination, and the request adds no session
\* and no entry to the store.
C11_EmptyCatalogRejected ==
    [][(/\ topics = {}
        /\ response'.op = "combine_sessions"
        /\ SessionCombineInput(response'.source_ids, response'.name)
        /\ \A i \in DOMAIN response'.source_ids :
               \E s \in sessions : s.id = response'.source_ids[i])
       => (/\ response'.status = "error"
           /\ response'.error = "BusinessLogicError:topics_required_for_combination"
           /\ sessions' = sessions
           /\ entries' = entries)]_vars

C11_Witness ==
    /\ topics = {}
    /\ response.op = "combine_sessions"
    /\ response.source_ids = <<1, 2>>
    /\ response.error = "BusinessLogicError:topics_required_for_combination"
    /\ sessions = SeedSessions

\* the master sessions flushed by the combine requests, committed or not
FlushedMasters == UNION { tx[c].new_sessions : c \in Clients }

\* C12: a combination is atomic.  When a combine request has failed after
\* its master session was created, neither that session nor an entry of it
\* is in the store once the request has ended; and a master session that
\* readers can see, at any moment, has one entry per topic.
C12_CombinationAtomic ==
    /\ \A c \in Clients :
           (tx[c].op = "combine_sessions" /\ tx[c].phase = "done" /\ tx[c].raised # "") =>
               \A m \in tx[c].new_sessions :
                   /\ \A s \in sessions : s.id # m.id
                   /\ \A e \in entries : e.session_id # m.id
    /\ \A m \in FlushedMasters :
           (\E s \in sessions : s.id = m.id) =>
               \A t \in topics :
                   Cardinality({ e \in entries :
                                   e.session_id = m.id /\ e.topic_id = t.id }) = 1
    /\ (/\ response.op = "get_session"
        /\ response.status = "ok"
        /\ \E m \in FlushedMasters : m.id = response.session_id)
       => /\ response.statistics.total_topics > 0
          /\ response.statistics.total_entries = response.statistics.total_topics

C12_Witness ==
    /\ \E c \in Clients :
           /\ tx[c].op = "combine_sessions"
           /\ tx[c].phase = "done"
           /\ tx[c].raised = "BusinessLogicError:session_combination"
           /\ tx[c].new_sessions # {}
           /\ response.op = "get_session"
           /\ response.status = "error"
           /\ \E m \in tx[c].new_sessions : m.id = response.session_id
    /\ \E c \in Clients :
           /\ tx[c].op = "combine_sessions"
           /\ tx[c].phase = "open"
           /\ tx[c].new_sessions # {}
    /\ topics # {}
    /\ sessions = SeedSessions

\* C13: an operation given a session id that does not exist fails with a
\* session-not-found error: a combine request for any missing source id,
\* compute_theme_averages and compute_dimension_averages for a missing
\* session id; the error reaches the caller as that kind of error.
C13_SessionNotFoundPropagated ==
    /\ (/\ response.op = "combine_sessions"
        /\ SessionCombineInput(response.source_ids, response.name)
        /\ \E i \in DOMAIN response.source_ids :
               \A s \in sessions : s.id # response.source_ids[i])
       => (response.status = "error" /\ response.error = "SessionNotFoundError")
    /\ (/\ response.op \in {"api.compute_theme_averages", "api.compute_dimension_averages"}
        /\ \A s \in sessions : s.id # response.session_id)
       => (response.status = "error" /\ response.error = "SessionNotFoundError")

\* the entries whose fields are all in range
FieldsInRange(v) ==
    /\ v.current_maturity = NULL \/ (1 <= v.current_maturity /\ v.current_maturity <= 5)
    /\ v.desired_maturity = NULL \/ (1 <= v.desired_maturity /\ v.desired_maturity <= 5)
    /\ v.computed_score = NULL \/ (0 <= v.computed_score /\ v.computed_score <= 500)

\* the entries that break a consistency rule
BreaksConsistencyRule(v) ==
    IF v.current_is_na
    THEN \/ v.current_maturity # NULL
         \/ ~v.desired_is_na
         \/ v.desired_maturity # NULL
    ELSE \/ v.current_maturity = NULL /\ v.computed_score = NULL
         \/ v.desired_is_na
         \/ v.desired_maturity = NULL
         \/ /\ v.current_maturity # NULL
            /\ v.desired_maturity # NULL
            /\ v.desired_maturity < v.current_maturity

RatingEntry(v) ==
    [current_maturity |-> v.current_maturity, desired_maturity |-> v.desired_maturity,
     computed_score |-> NULL,
     current_is_na |-> v.current_is_na, desired_is_na |-> v.desired_is_na]

UpsertRequested ==
    /\ response'.op \in {"record_topic_rating", "upsert"}
    /\ \E s \in sessions : s.id = response'.session_id
    /\ \E t \in topics : t.id = response'.input.topic_id
    /\ \/ /\ response'.op = "record_topic_rating"
          /\ FieldsInRange(RatingEntry(response'.input.rating))
          /\ ~BreaksConsistencyRule(RatingEntry(response'.input.rating))
       \/ /\ response'.op = "upsert"
          /\ response'.input.rating.is_na = (response'.input.rating.rating_level = NULL)

\* C16: across upserts there is at most one entry per (session_id,
\* topic_id): an upsert for a pair without entry creates one, an upsert for a
\* pair with an entry updates that entry, and the number of entries never
\* decreases.
C16_UpsertKeepsOneEntryPerPair ==
    [][/\ uq_session_topic(entries')
       /\ Cardinality(entries') >= Cardinality(entries)
       /\ UpsertRequested =>
              LET sid == response'.session_id
                  tid == response'.input.topic_id
              IN  /\ response'.status = "ok"
                  /\ Cardinality(EntriesOfPair(entries', sid, tid)) = 1
                  /\ Cardinality(entries') =
                         IF EntriesOfPair(entries, sid, tid) = {}
                         THEN Cardinality(entries) + 1
                         ELSE Cardinality(entries)]_vars

\* two rating requests for the same existing (session, topic), with
\* consistent entries, have both ended
RatingsEnded(c1, c2) ==
    /\ c1 # c2
    /\ tx[c1].op = "record_topic_rating" /\ tx[c1].phase = "done"
    /\ tx[c2].op = "record_topic_rating" /\ tx[c2].phase = "done"
    /\ tx[c1].input.session_id = tx[c2].input.session_id
    /\ tx[c1].input.topic_id = tx[c2].input.topic_id
    /\ \E s \in sessions : s.id = tx[c1].input.session_id
    /\ \E t \in topics : t.id = tx[c1].input.topic_id
    /\ ~BreaksConsistencyRule(RatingEntry(tx[c1].input.rating))
    /\ ~BreaksConsistencyRule(RatingEntry(tx[c2].input.rating))

\* C17: when two rating requests for the same (session, topic) both ran
\* while the pair had no entry, so that both insert, neither is answered
\* with a failure and the pair ends with one entry.
C17_RacingInsertRetried ==
    \A c1 \in Clients : \A c2 \in Clients :
        (RatingsEnded(c1, c2) /\ tx[c1].visible = {} /\ tx[c2].visible = {}) =>
            /\ tx[c1].raised = ""
            /\ tx[c2].raised = ""
            /\ Cardinality(EntriesOfPair(entries, tx[c1].input.session_id,
                                         tx[c1].input.topic_id)) = 1

\* the stored entry holds every field of a rating request
StoredAs(e, v) ==
    /\ e.current_maturity = v.current_maturity
    /\ e.desired_maturity = v.desired_maturity
    /\ e.current_is_na = v.current_is_na
    /\ e.desired_is_na = v.desired_is_na
    /\ e.comment = v.comment
    /\ e.progress_state = v.progress_state

\* C18: after concurrent rating edits of the same (session, topic) the
\* stored entry equals, field for field, the payload of one of the edits;
\* it is never a mixture of the two, nor anything else.
C18_LastWriteWins ==
    \A c1 \in Clients : \A c2 \in Clients :
        RatingsEnded(c1, c2) =>
            \E e \in EntriesOfPair(entries, tx[c1].input.session_id, tx[c1].input.topic_id) :
                StoredAs(e, tx[c1].input.rating) \/ StoredAs(e, tx[c2].input.rating)

\* the averages behind a dashboard answer, in the order of its records
DashboardAverages ==
    IF response.op = "get_dashboard_data"
    THEN compute_dimension_averages(entries, response.session_id)
             \o compute_theme_averages(entries, response.session_id)
    ELSE compute_dimension_averages(entries, response.session_id)

\* C19: at the API boundary a NaN average is serialised as null and only a
\* NaN average is: every other average, the number 0 included, is
\* serialised as that number.
C19_OnlyNaNSerialisedAsNull ==
    (response.op \in {"get_dashboard_data", "get_dashboard_figures"}
        /\ response.status = "ok") =>
        /\ Len(response.records) = Len(DashboardAverages)
        /\ \A i \in DOMAIN response.records :
               LET average == DashboardAverages[i].average
                   json == response.records[i].average
               IN  /\ json.null <=> IsNaN(average)
                   /\ ~IsNaN(average) => json.value = average

C19_Witness ==
    /\ response.op = "get_dashboard_data"
    /\ response.status = "ok"
    /\ \E i \in DOMAIN response.records :
           /\ ~response.records[i].average.null
           /\ response.records[i].average.value = Zero
    /\ \E i \in DOMAIN response.records : response.records[i].average.null
    /\ \E i \in DOMAIN response.records :
           /\ ~response.records[i].average.null
           /\ response.records[i].average.value = Rat(425, 1)

\* C20: ScoringService.compute_theme_averages called with a session id that
\* is not positive raises a validation error; it does not return records.
C20_NonPositiveSessionIdRejected ==
    (response.op = "compute_theme_averages" /\ response.session_id <= 0) =>
        /\ response.status = "error"
        /\ response.error = "ValidationError"
        /\ response.records = <<>>

\* C21: clamp_rating returns its argument unchanged for every integer level
\* in 1..5, returns None for None and raises an error for every integer
\* outside 1..5; an out-of-range value is never mapped to 1 or 5.
C21_ClampRatingRejectsOutOfRange ==
    response.op = "clamp_rating" =>
        /\ response.input = NULL =>
               (response.status = "ok" /\ response.result = NULL)
        /\ (response.input # NULL /\ 1 <= response.input /\ response.input <= 5) =>
               (response.status = "ok" /\ response.result = response.input)
        /\ (response.input # NULL /\ (response.input < 1 \/ response.input > 5)) =>
               (response.status = "error" /\ response.error # ""
                    /\ response.result \notin {1, 5})

C21_Witness ==
    /\ response.op = "clamp_rating"
    /\ response.input = 6
    /\ response.status = "error"
    /\ response.error = "ValueError"

\* C22: for every topic with at least one effective score among the source
\* sessions, the master entry has current_maturity = desired_maturity = the
\* mean of those scores rounded to the nearest integer (ties to even) and
\* clamped into 1..5; so they are 1 when the mean is below 0.5.
C22_MasterOrdinalsRoundedAndClamped ==
    CombineRequestAccepted =>
        \A t \in topics :
            LET values == SourceScores(t)
                total == SumOver(values, [e \in values |-> EffectiveScore(e)])
                mean == Rat(total, Cardinality(values) * 100)
                nearest == RoundHalfEven(mean)
                level == IF nearest < 1 THEN 1 ELSE IF nearest > 5 THEN 5 ELSE nearest
            IN  values # {} =>
                    \E e \in MasterEntries :
                        /\ e.topic_id = t.id
                        /\ e.current_maturity = level
                        /\ e.desired_maturity = level

\* what theme aggregation selects for one entry: the average of the theme
\* of its topic when the entry is the only one (NaN for none)
ThemeSelection(e) ==
    LET trs == compute_theme_averages({e}, e.session_id)
        th == CHOOSE x \in themes : \E t \in topics : t.id = e.topic_id /\ t.theme_id = x.id
        r == CHOOSE x \in Range(trs) : x.id = th.id
    IN  r.average

\* what session combination selects for one entry: the value by_topic holds
\* for its topic when the entry is the only one (NULL for no value)
CombinationSelection(e) ==
    LET values == by_topic({e}, <<e.session_id>>, e.topic_id)
    IN  IF values = {} THEN NULL ELSE SumValues(values)

\* what the dashboard answer selected for the topic of an entry
DashboardSelection(e) ==
    LET found == { i \in DOMAIN response.topic_scores :
                     response.topic_scores[i].topic_id = e.topic_id }
    IN  IF found = {} THEN NULL
        ELSE response.topic_scores[CHOOSE i \in found : TRUE].score

\* C23: the effective-score rule (none if current_is_na, else computed_score
\* if present, else current_maturity) is applied identically wherever a
\* score is selected: for every entry of the session a dashboard answers
\* for, theme aggregation, session combination and the topic scores of the
\* dashboard select the same value, or all select none.
C23_EffectiveScoreRuleEverywhere ==
    (response.op = "get_dashboard_data" /\ response.status = "ok") =>
        \A e \in entries :
            e.session_id = response.session_id =>
                /\ ThemeSelection(e) = IF EffectiveScore(e) = NULL THEN NaN
                                       ELSE Rat(EffectiveScore(e), 1)
                /\ CombinationSelection(e) = EffectiveScore(e)
                /\ DashboardSelection(e) = EffectiveScore(e)

C23_Witness ==
    /\ response.op = "get_dashboard_data"
    /\ response.status = "ok"
    /\ \E e \in entries :
           /\ e.session_id = response.session_id
           /\ e.computed_score = 425 /\ e.current_maturity = 2
           /\ DashboardSelection(e) = 425
    /\ \E e \in entries :
           /\ e.session_id = response.session_id
           /\ e.current_is_na /\ e.computed_score # NULL
           /\ DashboardSelection(e) = NULL
    /\ \E e \in entries :
           /\ e.session_id = response.session_id
           /\ e.computed_score = NULL /\ e.current_maturity = 3
           /\ DashboardSelection(e) = 300

\* two combine requests that pass validation and name existing source
\* sessions, over a catalog with topics, have both ended
CombinesEnded(c1, c2) ==
    /\ c1 # c2
    /\ tx[c1].op = "combine_sessions" /\ tx[c1].phase = "done"
    /\ tx[c2].op = "combine_sessions" /\ tx[c2].phase = "done"
    /\ topics # {}
    /\ \A c \in {c1, c2} :
           /\ SessionCombineInput(tx[c].input.source_session_ids, tx[c].input.name)
           /\ \A i \in DOMAIN tx[c].input.source_session_ids :
                  \E s \in SeedSessions : s.id = tx[c].input.source_session_ids[i]

\* C24: two concurrent combine requests do not conflict, also when they use
\* the same master session name: both succeed, each creates a master
\* session of its own, and each master session has one entry per topic.
C24_ConcurrentCombinesIndependent ==
    \A c1 \in Clients : \A c2 \in Clients :
        CombinesEnded(c1, c2) =>
            /\ tx[c1].raised = ""
            /\ tx[c2].raised = ""
            /\ tx[c1].master_id # tx[c2].master_id
            /\ \A c \in {c1, c2} :
                   /\ \E s \in sessions : s.id = tx[c].master_id
                   /\ \A t \in topics :
                          Cardinality(EntriesOfPair(entries, tx[c].master_id, t.id)) = 1

\* C25: compute_theme_averages and compute_dimension_averages are
\* read-only: a call, for an existing or a non-existing session, leaves the
\* catalog, the sessions and every entry unchanged, and a call that follows
\* a call with the same argument returns the same records.
C25_AveragesReadOnly ==
    [][response'.op \in {"compute_theme_averages", "compute_dimension_averages"} =>
          /\ dimensions' = dimensions
          /\ themes' = themes
          /\ topics' = topics
          /\ sessions' = sessions
          /\ entries' = entries
          /\ (response.op = response'.op /\ response.session_id = response'.session_id) =>
                 response'.records = response.records]_vars

C25_Witness ==
    /\ response.op = "compute_dimension_averages"
    /\ response.status = "ok"
    /\ \A s \in sessions : s.id # response.session_id
    /\ sessions = SeedSessions
    /\ Cardinality(entries) = MaxEntries
    /\ \A i \in DOMAIN response.records : IsNaN(response.records[i].average)

\* C26: combining exactly one source session S yields a master session M
\* whose theme and dimension averages and coverages equal those of S.
C26_SingleSourceMasterEqualsSource ==
    (CombineRequestAccepted /\ Len(response.source_ids) = 1) =>
        /\ response.status = "ok"
        /\ \E s \in sessions : s.id = response.master_id
        /\ compute_theme_averages(entries, response.master_id)
               = compute_theme_averages(entries, response.source_ids[1])
        /\ compute_dimension_averages(entries, response.master_id)
               = compute_dimension_averages(entries, response.source_ids[1])

\* the entries of one session
EntriesOfSession(es, session_id) == { e \in es : e.session_id = session_id }

\* a request that writes entries has just been answered; a combination
\* writes to its master session, which is none of the sessions that exist
\* when it starts
WriteRequested ==
    response'.op \in {"combine_sessions", "record_topic_rating", "import_session_xlsx",
                      "upsert"}

\* C27: scoring is scoped to one session.  The records of
\* compute_theme_averages(A) and compute_dimension_averages(A) are a
\* function of the entries of A alone, and a request that creates, updates
\* or combines entries of a session B leaves the entries, hence the
\* averages, of every other session A unchanged; a combination leaves the
\* entries of every source session unchanged.
C27_ScoringScopedToSession ==
    /\ [](ThemeRecordsReturned =>
             response.records =
                 compute_theme_averages(EntriesOfSession(entries, response.session_id),
                                        response.session_id))
    /\ [](DimensionRecordsReturned =>
             response.records =
                 compute_dimension_averages(EntriesOfSession(entries, response.session_id),
                                            response.session_id))
    /\ [][WriteRequested =>
             \A a \in sessions :
                 (response'.op = "combine_sessions" \/ a.id # response'.session_id) =>
                     EntriesOfSession(entries', a.id) = EntriesOfSession(entries, a.id)]_vars

C27_Witness ==
    /\ response.op = "compute_dimension_averages"
    /\ response.session_id = 2
    /\ \E e \in entries : e.session_id = 1 /\ e.topic_id = 1 /\ e.computed_score = 425
    /\ \E e \in entries : e.session_id = 2 /\ e.topic_id = 1 /\ e.computed_score = NULL
                                /\ e.current_maturity = 3
    /\ \E i \in DOMAIN response.records : response.records[i].average = Rat(300, 1)

\* C28: an edit through record_topic_rating, with a consistent rating that
\* is not N/A, of an entry that holds a computed_score succeeds and clears
\* the computed_score: afterwards the effective score of the entry is the
\* current_maturity just entered, not the stale decimal average.
C28_EditClearsComputedScore ==
    [][(/\ response'.op = "record_topic_rating"
        /\ \E s \in sessions : s.id = response'.session_id
        /\ \E e \in EntriesOfPair(entries, response'.session_id, response'.input.topic_id) :
               e.computed_score # NULL
        /\ ~response'.input.rating.current_is_na
        /\ FieldsInRange(RatingEntry(response'.input.rating))
        /\ ~BreaksConsistencyRule(RatingEntry(response'.input.rating)))
       => (/\ response'.status = "ok"
           /\ \A e \in EntriesOfPair(entries', response'.session_id,
                                      response'.input.topic_id) :
                  /\ e.computed_score = NULL
                  /\ EffectiveScore(e) = response'.input.rating.current_maturity * 100)]_vars

\* C29: combine_sessions_to_master performs no write before its checks
\* pass: a request whose input fails validation (1 to 50 source ids, no
\* duplicates, all positive) or names a source session that does not exist
\* fails without having created a session or an entry, inside its
\* transaction as well as in the store.
C29_NoWriteBeforeChecksPass ==
    \A c \in Clients :
        (/\ tx[c].op = "combine_sessions"
         /\ \/ Len(tx[c].input.source_session_ids) \notin 1..50
            \/ \E i \in DOMAIN tx[c].input.source_session_ids :
                   \/ tx[c].input.source_session_ids[i] <= 0
                   \/ \A s \in sessions : s.id # tx[c].input.source_session_ids[i]
                   \/ \E j \in DOMAIN tx[c].input.source_session_ids :
                          i # j /\ tx[c].input.source_session_ids[i]
                                     = tx[c].input.source_session_ids[j])
        => /\ tx[c].raised # ""
           /\ tx[c].new_sessions = {}
           /\ tx[c].new_entries = {}
           /\ sessions = SeedSessions

C29_Witness ==
    \E c1 \in Clients : \E c2 \in Clients :
        /\ tx[c1].op = "combine_sessions"
        /\ tx[c1].phase = "done"
        /\ tx[c1].input.source_session_ids = <<MaxSessions + 1>>
        /\ tx[c1].raised = "BusinessLogicError:session_combination"
        /\ tx[c1].new_sessions = {}
        /\ tx[c2].op = "combine_sessions"
        /\ tx[c2].input.source_session_ids = <<1, 1>>
        /\ tx[c2].raised = "ValidationError"
        /\ tx[c2].new_sessions = {}

\* a row of a spreadsheet that the import must reject
RejectedRow(row) ==
    /\ row.TopicID # NULL
    /\ \/ \A t \in topics : t.id # row.TopicID
       \/ row.CurrentMaturity = Unparsable
       \/ BreaksConsistencyRule(
              [current_maturity |-> row.CurrentMaturity,
               desired_maturity |-> IF row.DesiredMaturity = NULL
                                     THEN row.CurrentMaturity ELSE row.DesiredMaturity,
               computed_score |-> row.ComputedScore,
               current_is_na |-> row.CurrentNA, desired_is_na |-> row.CurrentNA])

\* C30: a spreadsheet import into an existing session is all-or-nothing.
\* If any row refers to an unknown topic, has an unparsable value or fails
\* entry validation, the answer is an error with processed = 0 and no entry
\* has been created or changed; when every row is valid the answer is ok,
\* processed is the number of rows upserted and each of them is stored.
C30_ImportAllOrNothing ==
    [][(/\ response'.op = "import_session_xlsx"
        /\ \E s \in sessions : s.id = response'.session_id)
       => LET rows == response'.input
              upserted == { i \in DOMAIN rows : rows[i].TopicID # NULL }
          IN  IF \E i \in DOMAIN rows : RejectedRow(rows[i])
              THEN /\ response'.status = "error"
                   /\ response'.processed = 0
                   /\ entries' = entries
              ELSE /\ response'.status = "ok"
                   /\ response'.processed = Cardinality(upserted)
                   /\ \A i \in upserted :
                          \E e \in EntriesOfPair(entries', response'.session_id,
                                                 rows[i].TopicID) :
                              e.current_maturity = rows[i].CurrentMaturity]_vars

====
